---- MODULE Spec2Model ----
(***************************************************************************)
(* next-static-searchparams: precomputeSearchParams / serialize / decrypt  *)
(* (lib/src/index.ts), with the parts of jose (CompactSign, compactVerify, *)
(* base64url) and of the JavaScript runtime (URLSearchParams,              *)
(* Object.fromEntries, JSON, TextEncoder/TextDecoder) those functions call.*)
(*                                                                         *)
(* A string is a sequence of one-character strings, a Uint8Array is a      *)
(* sequence of numbers 0..255.  HMAC is the ideal MAC: the tag over        *)
(* (alg, key, data) is the triple itself, so two tags are equal exactly    *)
(* when algorithm, key bytes and signed bytes are equal.                   *)
(***************************************************************************)
EXTENDS Integers, Sequences, FiniteSets, TLC

VARIABLES env, calls, page

vars == <<env, calls, page>>

(***************************************************************************)
(* Characters and bytes                                                    *)
(***************************************************************************)

\* The printable ASCII characters, code 32 first (code 96 is spelled out).
Printable ==
  << " ", "!", "\"", "#", "$", "%", "&", "'", "(", ")", "*", "+", ",", "-", ".", "/",
     "0", "1", "2", "3", "4", "5", "6", "7", "8", "9", ":", ";", "<", "=", ">", "?",
     "@", "A", "B", "C", "D", "E", "F", "G", "H", "I", "J", "K", "L", "M", "N", "O",
     "P", "Q", "R", "S", "T", "U", "V", "W", "X", "Y", "Z", "[", "\\", "]", "^", "_",
     "<grave>", "a", "b", "c", "d", "e", "f", "g", "h", "i", "j", "k", "l", "m", "n", "o",
     "p", "q", "r", "s", "t", "u", "v", "w", "x", "y", "z", "{", "|", "}", "~" >>

\* What TextDecoder yields for a byte that is no printable ASCII character.
Replacement == "<U+FFFD>"

Range(s) == { s[i] : i \in 1..Len(s) }

OrdTable == [ c \in Range(Printable) |-> 31 + (CHOOSE i \in 1..Len(Printable) : Printable[i] = c) ]

\* The code unit of a character.
Ord(c) == OrdTable[c]

Chr(n) == IF n \in 32..126 THEN Printable[n - 31] ELSE Replacement

\* new TextEncoder().encode(str)
TextEncoderEncode(str) == [ i \in 1..Len(str) |-> Ord(str[i]) ]

\* new TextDecoder().decode(bytes)
TextDecoderDecode(bytes) == [ i \in 1..Len(bytes) |-> Chr(bytes[i]) ]

(***************************************************************************)
(* jose base64url                                                          *)
(***************************************************************************)

B64Alphabet ==
  << "A", "B", "C", "D", "E", "F", "G", "H", "I", "J", "K", "L", "M", "N", "O", "P",
     "Q", "R", "S", "T", "U", "V", "W", "X", "Y", "Z", "a", "b", "c", "d", "e", "f",
     "g", "h", "i", "j", "k", "l", "m", "n", "o", "p", "q", "r", "s", "t", "u", "v",
     "w", "x", "y", "z", "0", "1", "2", "3", "4", "5", "6", "7", "8", "9", "-", "_" >>

B64Table == [ c \in Range(B64Alphabet) |-> (CHOOSE i \in 1..Len(B64Alphabet) : B64Alphabet[i] = c) - 1 ]

IsB64(c) == c \in DOMAIN B64Table

B64Char(n) == B64Alphabet[n + 1]

RECURSIVE Base64urlEncodeBytes(_)
\* base64url.encode of a Uint8Array: three bytes to four characters, no padding.
Base64urlEncodeBytes(b) ==
  IF Len(b) = 0 THEN << >>
  ELSE IF Len(b) = 1 THEN
    LET n == b[1] * 16 IN << B64Char(n \div 64), B64Char(n % 64) >>
  ELSE IF Len(b) = 2 THEN
    LET n == (b[1] * 256 + b[2]) * 4
    IN << B64Char(n \div 4096), B64Char((n \div 64) % 64), B64Char(n % 64) >>
  ELSE
    LET n == (b[1] * 256 + b[2]) * 256 + b[3]
    IN << B64Char(n \div 262144), B64Char((n \div 4096) % 64),
          B64Char((n \div 64) % 64), B64Char(n % 64) >>
       \o Base64urlEncodeBytes(SubSeq(b, 4, Len(b)))

\* base64url.encode(input): a string input is first encoded as UTF-8.
Base64urlEncode(str) == Base64urlEncodeBytes(TextEncoderEncode(str))

RECURSIVE B64DecodeChars(_)
B64DecodeChars(s) ==
  IF Len(s) < 2 THEN << >>
  ELSE IF Len(s) = 2 THEN
    LET n == B64Table[s[1]] * 64 + B64Table[s[2]] IN << n \div 16 >>
  ELSE IF Len(s) = 3 THEN
    LET n == (B64Table[s[1]] * 64 + B64Table[s[2]]) * 64 + B64Table[s[3]]
    IN << n \div 1024, (n \div 4) % 256 >>
  ELSE
    LET n == ((B64Table[s[1]] * 64 + B64Table[s[2]]) * 64 + B64Table[s[3]]) * 64
             + B64Table[s[4]]
    IN << n \div 65536, (n \div 256) % 256, n % 256 >>
       \o B64DecodeChars(SubSeq(s, 5, Len(s)))

\* base64url.decode(input): throws on a character outside the alphabet and on
\* a dangling single character; the unused low bits of a last partial group
\* are dropped whatever they are.
Base64urlDecode(s) ==
  IF (\E i \in 1..Len(s) : ~IsB64(s[i])) \/ Len(s) % 4 = 1
  THEN [ok |-> FALSE, bytes |-> << >>]
  ELSE [ok |-> TRUE, bytes |-> B64DecodeChars(s)]

(***************************************************************************)
(* URLSearchParams, Object.fromEntries, JSON                               *)
(***************************************************************************)

RECURSIVE StrLess(_, _)
\* a < b comparing code units
StrLess(a, b) ==
  IF Len(b) = 0 THEN FALSE
  ELSE IF Len(a) = 0 THEN TRUE
  ELSE IF Ord(a[1]) # Ord(b[1]) THEN Ord(a[1]) < Ord(b[1])
  ELSE StrLess(Tail(a), Tail(b))

RECURSIVE InsertByKey(_, _)
\* e goes after every entry whose name is not greater: the sort is stable.
InsertByKey(e, sorted) ==
  IF Len(sorted) = 0 THEN << e >>
  ELSE IF StrLess(e[1], sorted[1][1]) THEN << e >> \o sorted
  ELSE << sorted[1] >> \o InsertByKey(e, Tail(sorted))

\* The sort left out: the entries stay in insertion order.
Unsorted(p) == p

RECURSIVE URLSearchParamsSort(_)
\* URLSearchParams.prototype.sort(): stable, by name, in code unit order.
URLSearchParamsSort(p) ==
  IF Len(p) = 0 THEN << >>
  ELSE InsertByKey(p[Len(p)], URLSearchParamsSort(SubSeq(p, 1, Len(p) - 1)))

Digits == { "0", "1", "2", "3", "4", "5", "6", "7", "8", "9" }

\* A canonical numeric string: such property names are array indices.
IsArrayIndex(k) ==
  /\ Len(k) > 0
  /\ \A i \in 1..Len(k) : k[i] \in Digits
  /\ (Len(k) > 1 => k[1] # "0")

RECURSIVE ToIndex(_)
ToIndex(k) == IF Len(k) = 0 THEN 0 ELSE ToIndex(SubSeq(k, 1, Len(k) - 1)) * 10 + (Ord(k[Len(k)]) - 48)

RECURSIVE DefineAll(_, _)
\* obj[k] = v for each entry in turn: a name already present keeps its place
\* and takes the new value.
DefineAll(obj, entries) ==
  IF Len(entries) = 0 THEN obj
  ELSE LET e == entries[1]
           at == { i \in 1..Len(obj) : obj[i][1] = e[1] }
           next == IF at = {} THEN Append(obj, e)
                   ELSE [ i \in 1..Len(obj) |-> IF i \in at THEN e ELSE obj[i] ]
       IN DefineAll(next, Tail(entries))

RECURSIVE InsertByIndex(_, _)
InsertByIndex(e, sorted) ==
  IF Len(sorted) = 0 THEN << e >>
  ELSE IF ToIndex(e[1]) < ToIndex(sorted[1][1]) THEN << e >> \o sorted
  ELSE << sorted[1] >> \o InsertByIndex(e, Tail(sorted))

RECURSIVE SortByIndex(_)
SortByIndex(p) ==
  IF Len(p) = 0 THEN << >>
  ELSE InsertByIndex(p[Len(p)], SortByIndex(SubSeq(p, 1, Len(p) - 1)))

\* The own properties of an object in enumeration order: array indices in
\* ascending numeric order, then the other names in creation order.
OwnProperties(obj) ==
  SortByIndex(SelectSeq(obj, LAMBDA e : IsArrayIndex(e[1])))
    \o SelectSeq(obj, LAMBDA e : ~IsArrayIndex(e[1]))

\* Object.fromEntries(iterable)
ObjectFromEntries(entries) == OwnProperties(DefineAll(<< >>, entries))

RECURSIVE QuoteChars(_)
QuoteChars(s) ==
  IF Len(s) = 0 THEN << >>
  ELSE (IF s[1] \in { "\"", "\\" } THEN << "\\", s[1] >> ELSE << s[1] >>)
       \o QuoteChars(Tail(s))

\* JSON.stringify of a string
Quote(s) == << "\"" >> \o QuoteChars(s) \o << "\"" >>

RECURSIVE Members(_)
Members(obj) ==
  IF Len(obj) = 0 THEN << >>
  ELSE Quote(obj[1][1]) \o << ":" >> \o Quote(obj[1][2])
       \o (IF Len(obj) = 1 THEN << >> ELSE << "," >> \o Members(Tail(obj)))

\* JSON.stringify of an object whose values are strings
JSONStringify(obj) == << "{" >> \o Members(obj) \o << "}" >>

RECURSIVE ScanString(_, _, _)
\* The characters of a JSON string whose opening quote precedes position i,
\* and the position after its closing quote.
ScanString(t, i, acc) ==
  IF i > Len(t) THEN [ok |-> FALSE, str |-> << >>, next |-> i]
  ELSE IF t[i] = "\"" THEN [ok |-> TRUE, str |-> acc, next |-> i + 1]
  ELSE IF t[i] = "\\" THEN
    IF i + 1 <= Len(t) /\ t[i + 1] \in { "\"", "\\", "/" }
    THEN ScanString(t, i + 2, Append(acc, t[i + 1]))
    ELSE [ok |-> FALSE, str |-> << >>, next |-> i]
  ELSE ScanString(t, i + 1, Append(acc, t[i]))

RECURSIVE ParseMembers(_, _, _)
\* "name":"value" pairs separated by commas, from position i to the closing brace.
ParseMembers(t, i, acc) ==
  LET bad == [ok |-> FALSE, value |-> << >>]
      k == ScanString(t, i + 1, << >>)
      v == ScanString(t, k.next + 2, << >>)
  IN IF ~(i <= Len(t) /\ t[i] = "\"") \/ ~k.ok THEN bad
     ELSE IF ~(k.next + 1 <= Len(t) /\ t[k.next] = ":" /\ t[k.next + 1] = "\"") \/ ~v.ok THEN bad
     ELSE IF v.next > Len(t) THEN bad
     ELSE IF t[v.next] = "}" THEN
       IF v.next = Len(t) THEN [ok |-> TRUE, value |-> Append(acc, << k.str, v.str >>)] ELSE bad
     ELSE IF t[v.next] = "," THEN ParseMembers(t, v.next + 1, Append(acc, << k.str, v.str >>))
     ELSE bad

\* JSON.parse(text) for the texts this model feeds it: a flat object of
\* strings written without white space parses to that object, and a text
\* that does not start a JSON value (base64url text of "{..." starts with
\* "e") is a SyntaxError.
JSONParse(t) ==
  IF Len(t) < 2 \/ t[1] # "{" THEN [ok |-> FALSE, value |-> << >>]
  ELSE IF t = << "{", "}" >> THEN [ok |-> TRUE, value |-> << >>]
  ELSE LET r == ParseMembers(t, 2, << >>)
       IN [ok |-> r.ok, value |-> OwnProperties(DefineAll(<< >>, r.value))]

(***************************************************************************)
(* Compact JWS (jose)                                                      *)
(***************************************************************************)

HS256 == << "H", "S", "2", "5", "6" >>
HS384 == << "H", "S", "3", "8", "4" >>
HS512 == << "H", "S", "5", "1", "2" >>

\* The algorithms a Uint8Array key can be used with.
HmacAlgorithms == { HS256, HS384, HS512 }

NoMac == [alg |-> << >>, key |-> << >>, data |-> << >>]

\* The tag of the ideal MAC.
HMAC(alg, key, data) == [alg |-> alg, key |-> key, data |-> data]

\* A segment of a compact JWS: base64url text, or the text of a tag.  The
\* text of a tag is not spelled out; form tells what it decodes to:
\*   "sig"          the text the signer wrote
\*   "sig-padbits"  the last character changed in its two unused low bits
\*   "sig-altered"  a character changed so that other bytes are decoded
\*   "sig-badchar"  a character replaced by one outside the alphabet
\*   "sig-head", "sig-tail"  the two parts left when a character became "."
Seg(text) == [text |-> text, mac |-> NoMac, form |-> "text"]
SigSeg(mac, form) == [text |-> << >>, mac |-> mac, form |-> form]

\* A header that also carries a counter of the calls made so far.
ProtectedHeaderWithCounter ==
  << << << "a", "l", "g" >>, HS256 >>,
     << << "n" >>, << Chr(48 + Cardinality({ c \in DOMAIN calls : calls[c].pc # "idle" })) >> >> >>

\* The argument of setProtectedHeader.
ProtectedHeader == << << << "a", "l", "g" >>, HS256 >> >>

\* The synchronous part of new CompactSign(payload).setProtectedHeader(header)
\* .sign(key): both segments and the bytes to be signed.
FlattenedSignInput(payload, header) ==
  LET protected == Base64urlEncode(JSONStringify(header))
      encoded == Base64urlEncodeBytes(payload)
  IN [protected |-> protected, payload |-> encoded,
      data |-> TextEncoderEncode(protected \o << "." >> \o encoded)]

\* The compact serialization once the tag is there.
CompactJWS(input, tag) == << Seg(input.protected), Seg(input.payload), SigSeg(tag, "sig") >>

Get(obj, name) ==
  LET at == { i \in 1..Len(obj) : obj[i][1] = name }
  IN IF at = {} THEN << >> ELSE obj[CHOOSE i \in at : TRUE][2]

\* What base64url decoding of the signature segment yields.
DecodeSignature(seg) ==
  IF seg.form = "text"
  THEN [ok |-> Base64urlDecode(seg.text).ok, mac |-> NoMac]
  ELSE IF seg.form \in { "sig", "sig-padbits" } THEN [ok |-> TRUE, mac |-> seg.mac]
  ELSE IF seg.form = "sig-altered" THEN [ok |-> TRUE, mac |-> NoMac]
  ELSE [ok |-> FALSE, mac |-> NoMac]

\* compactVerify(jws, key) up to the await of the verification: the checks
\* that reject with JWSInvalid or for the algorithm, else what is verified.
VerifyInput(jws, key) ==
  LET rejected(kind) == [kind |-> kind, alg |-> << >>, data |-> << >>, mac |-> NoMac]
      decodedHeader == Base64urlDecode(jws[1].text)
      parsed == IF jws[1].form = "text" /\ decodedHeader.ok
                THEN JSONParse(TextDecoderDecode(decodedHeader.bytes))
                ELSE [ok |-> FALSE, value |-> << >>]
      alg == Get(parsed.value, << "a", "l", "g" >>)
      signature == DecodeSignature(jws[3])
  IN IF Len(jws) # 3 THEN rejected("JWSInvalid")
     ELSE IF jws[1].form # "text" \/ jws[2].form # "text" THEN rejected("JWSInvalid")
     ELSE IF Len(jws[1].text) > 0 /\ ~parsed.ok THEN rejected("JWSInvalid")
     ELSE IF Len(jws[1].text) = 0 \/ Len(alg) = 0 THEN rejected("JWSInvalid")
     ELSE IF alg \notin HmacAlgorithms THEN rejected("UnsupportedAlgorithm")
     ELSE IF ~signature.ok THEN rejected("JWSInvalid")
     ELSE [kind |-> "pending", alg |-> alg,
           data |-> TextEncoderEncode(jws[1].text \o << "." >> \o jws[2].text),
           mac |-> signature.mac]

(***************************************************************************)
(* lib/src/index.ts                                                        *)
(***************************************************************************)

\* string | undefined
Undefined == [defined |-> FALSE, text |-> << >>]
Str(text) == [defined |-> TRUE, text |-> text]

\* Only undefined counts as missing: secret === undefined.
SecretUndefined(secret) == ~secret.defined

\* !secret
SecretMissing(secret) == ~secret.defined \/ Len(secret.text) = 0

\* The transform the caller passes to precomputeSearchParams: the identity.
ParseFunction(searchParams) == searchParams

\* serialize, from the copy of the search params to base64url.encode.
EncodedParams(searchParams) ==
  LET sortedParams == URLSearchParamsSort(searchParams)
      stringifiedParams == JSONStringify(ObjectFromEntries(sortedParams))
  IN Base64urlEncode(stringifiedParams)

\* serialize, the CompactSign expression: the constructor is given the bytes
\* of the secret and sign() the bytes of the encoded params.
SerializeSigning(searchParams, secret) ==
  [jws |-> FlattenedSignInput(TextEncoderEncode(secret.text), ProtectedHeader),
   key |-> TextEncoderEncode(EncodedParams(searchParams))]

\* decrypt, the key handed to compactVerify.
VerifierKey(secret) == Base64urlDecode(secret.text)

\* decrypt, after compactVerify resolved: JSON.parse of the payload text, and
\* new URLSearchParams of the record.
DecodePayload(payload) ==
  LET parsed == JSONParse(TextDecoderDecode(payload))
  IN IF parsed.ok THEN [kind |-> "URLSearchParams", params |-> parsed.value]
     ELSE [kind |-> "SyntaxError", params |-> << >>]

(***************************************************************************)
(* Inputs                                                                  *)
(***************************************************************************)

\* Longest search params a request carries.
MaxParams == 2

\* $=x, q=y, q=x, 10=y: "$" sorts before "10" and "10" is an array index.
Entries ==
  { << << "$" >>, << "x" >> >>, << << "q" >>, << "y" >> >>, << << "q" >>, << "x" >> >>,
    << << "1", "0" >>, << "y" >> >> }

ParamCollections == UNION { [1..n -> Entries] : n \in 0..MaxParams }

\* "ZTMw" is base64url text, and it is the base64url text of "e30", the
\* encoded params of an empty collection; "a!" is no base64url text.
Secrets == { << "Z", "T", "M", "w" >>, << "a", "!" >> }

\* process.env.SEARCHPARAMS_SECRET, and the secret argument of decrypt
SecretValues == { Undefined, Str(<< >>) } \cup { Str(t) : t \in Secrets }

\* The middleware requests.
Calls == { "r1", "r2" }

\* code with character i of its payload segment replaced by ch; a "." cuts
\* the segment in two.
ReplacePayloadChar(code, i, ch) ==
  LET t == code[2].text
  IN IF ch = "."
     THEN << code[1], Seg(SubSeq(t, 1, i - 1)), Seg(SubSeq(t, i + 1, Len(t))), code[3] >>
     ELSE << code[1], Seg([t EXCEPT ![i] = ch]), code[3] >>

\* code with one character of its signature segment replaced.
ReplaceSignatureChar(code, form) ==
  IF form = "dot"
  THEN << code[1], code[2], SigSeg(code[3].mac, "sig-head"), SigSeg(code[3].mac, "sig-tail") >>
  ELSE << code[1], code[2], SigSeg(code[3].mac, form) >>

TamperChars == { "A", "!", "." }

SignatureTampers == { "sig-padbits", "sig-altered", "sig-badchar", "dot" }

Tampered(code) ==
  UNION { { ReplacePayloadChar(code, i, ch) : ch \in TamperChars \ { code[2].text[i] } } :
            i \in 1..Len(code[2].text) }
  \cup { ReplaceSignatureChar(code, f) : f \in SignatureTampers }

\* Strings that are no compact JWS: "not-a-token", "ab.cd", "ab.cd.ef.gh".
MalformedCodes ==
  { << Seg(<< "n", "o", "t", "-", "a", "-", "t", "o", "k", "e", "n" >>) >>,
    << Seg(<< "a", "b" >>), Seg(<< "c", "d" >>) >>,
    << Seg(<< "a", "b" >>), Seg(<< "c", "d" >>), Seg(<< "e", "f" >>), Seg(<< "g", "h" >>) >> }

\* Compact JWS made outside serialize by a holder of the secret, keyed the way
\* decrypt keys the verification: under each HMAC algorithm, with the
\* stringified record and with its base64url text as payload.
ForgedCodes ==
  LET record == JSONStringify(<< << << "q" >>, << "x" >> >> >>)
      key == VerifierKey(Str(<< "Z", "T", "M", "w" >>)).bytes
      sign(alg, text) ==
        LET input == FlattenedSignInput(TextEncoderEncode(text), << << << "a", "l", "g" >>, alg >> >>)
        IN CompactJWS(input, HMAC(alg, key, input.data))
  IN { sign(alg, text) : alg \in { HS256, HS512 }, text \in { record, Base64urlEncode(record) } }

(***************************************************************************)
(* State                                                                   *)
(***************************************************************************)

NoInput == [protected |-> << >>, payload |-> << >>, data |-> << >>]

\* A call of precomputeSearchParams.  overlapped records that the call began
\* while another one was suspended at the await of its signature.
IdleCall ==
  [pc |-> "idle", searchParams |-> << >>, secret |-> Undefined, jws |-> NoInput,
   key |-> << >>, overlapped |-> FALSE, result |-> [kind |-> "none", code |-> << >>]]

\* The call of decrypt.  key, alg, data and mac are what compactVerify was
\* given to verify; verified is the outcome of the verification.
IdlePage ==
  [pc |-> "idle", code |-> << >>, secret |-> Undefined, key |-> << >>,
   alg |-> << >>, data |-> << >>, mac |-> NoMac, verified |-> FALSE,
   result |-> [kind |-> "none", params |-> << >>]]

Init ==
  /\ env \in SecretValues
  /\ calls = [c \in Calls |-> IdleCall]
  /\ page = IdlePage

\* precomputeSearchParams(searchParams, parseFunction) up to the await inside
\* sign(): the throw for a missing secret, else the pending signature.
EncodeStart(c, searchParams) ==
  /\ calls[c].pc = "idle"
  /\ LET params == ParseFunction(searchParams)
         secret == env
         started == [calls[c] EXCEPT !.searchParams = searchParams, !.secret = secret,
                       !.overlapped = \E d \in Calls \ {c} : calls[d].pc = "signing"]
     IN IF SecretMissing(secret)
        THEN calls' = [calls EXCEPT ![c] =
               [started EXCEPT !.pc = "done", !.result = [kind |-> "MissingSecret", code |-> << >>]]]
        ELSE LET signing == SerializeSigning(params, secret)
             IN calls' = [calls EXCEPT ![c] =
                  [started EXCEPT !.pc = "signing", !.jws = signing.jws, !.key = signing.key]]
  /\ UNCHANGED << env, page >>

\* The signature is there: the promise resolves with the compact JWS.
SignResolve(c) ==
  /\ calls[c].pc = "signing"
  /\ calls' = [calls EXCEPT ![c].pc = "done",
                            ![c].result = [kind |-> "token",
                               code |-> CompactJWS(calls[c].jws,
                                          HMAC(HS256, calls[c].key, calls[c].jws.data))]]
  /\ UNCHANGED << env, page >>

\* The codes a page can be asked to decrypt.
Codes ==
  LET issued == { calls[c].result.code : c \in { d \in Calls : calls[d].result.kind = "token" } }
  IN issued \cup UNION { Tampered(t) : t \in issued } \cup MalformedCodes \cup ForgedCodes

\* decrypt(code, secret) up to the await inside compactVerify.
DecryptStart(code, arg) ==
  /\ page.pc = "idle"
  /\ LET secret == IF arg.defined THEN arg ELSE env
         key == VerifierKey(secret)
         input == VerifyInput(code, key.bytes)
         started == [page EXCEPT !.code = code, !.secret = secret]
         failed(kind) == [started EXCEPT !.pc = "done", !.result = [kind |-> kind, params |-> << >>]]
     IN IF SecretMissing(secret) THEN page' = failed("MissingSecret")
        ELSE IF ~key.ok THEN page' = failed("SecretDecodeError")
        ELSE IF input.kind # "pending" THEN page' = [failed(input.kind) EXCEPT !.key = key.bytes]
        ELSE page' = [started EXCEPT !.pc = "verifying", !.key = key.bytes,
                        !.alg = input.alg, !.data = input.data, !.mac = input.mac]
  /\ UNCHANGED << env, calls >>

\* The verification is there: JWSSignatureVerificationFailed, or the payload
\* is decoded and handed to JSON.parse.
VerifyResolve ==
  /\ page.pc = "verifying"
  /\ LET verified == page.mac = HMAC(page.alg, page.key, page.data)
         payload == Base64urlDecode(page.code[2].text)
         failed(kind) == [kind |-> kind, params |-> << >>]
     IN page' = [page EXCEPT !.pc = "done", !.verified = verified,
                   !.result = IF ~verified THEN failed("JWSSignatureVerificationFailed")
                              ELSE IF ~payload.ok THEN failed("JWSInvalid")
                              ELSE DecodePayload(payload.bytes)]
  /\ UNCHANGED << env, calls >>

\* One request through the middleware, and the page.
Middleware == "r1"

Next ==
  \/ \E searchParams \in ParamCollections : EncodeStart(Middleware, searchParams)
  \/ SignResolve(Middleware)
  \/ \E code \in Codes, arg \in SecretValues : DecryptStart(code, arg)
  \/ VerifyResolve

Spec == Init /\ [][Next]_vars

\* Requests through the middleware at the same time.
ConcNext ==
  \/ \E c \in Calls, searchParams \in ParamCollections : EncodeStart(c, searchParams)
  \/ \E c \in Calls : SignResolve(c)

ConcSpec == Init /\ [][ConcNext]_vars

(***************************************************************************)
(* Properties                                                              *)
(***************************************************************************)

PairSet(p) == Range(p)

UniqueKeys(p) == \A i, j \in 1..Len(p) : p[i][1] = p[j][1] => i = j

\* absent or the empty string
NoSecret(secret) == ~secret.defined \/ secret.text = << >>

Issued(c) == calls[c].pc = "done" /\ calls[c].result.kind = "token"

\* The page has decrypted the token the middleware issued.
DecryptedIssued == Issued(Middleware) /\ page.pc = "done" /\ page.code = calls[Middleware].result.code

\* C1: decrypting, with the secret it was signed under, the token issued for
\* search params with unique keys returns exactly their key-value pairs.
RoundTrip ==
  (DecryptedIssued /\ page.secret = calls[Middleware].secret
     /\ UniqueKeys(calls[Middleware].searchParams))
  => /\ page.result.kind = "URLSearchParams"
     /\ PairSet(page.result.params) = PairSet(calls[Middleware].searchParams)

\* C2: two calls given the same key-value pairs (unique keys), in whatever
\* order, under the same secret return the same token.
OrderIndependence ==
  \A c, d \in Calls :
    (Issued(c) /\ Issued(d) /\ calls[c].secret = calls[d].secret
       /\ UniqueKeys(calls[c].searchParams) /\ UniqueKeys(calls[d].searchParams)
       /\ PairSet(calls[c].searchParams) = PairSet(calls[d].searchParams))
    => calls[c].result.code = calls[d].result.code

\* Two calls did return one token for the same pairs given in different orders.
OrderIndependenceWitness ==
  \E c, d \in Calls :
    /\ Issued(c) /\ Issued(d) /\ calls[c].secret = calls[d].secret
    /\ UniqueKeys(calls[c].searchParams) /\ UniqueKeys(calls[d].searchParams)
    /\ PairSet(calls[c].searchParams) = PairSet(calls[d].searchParams)
    /\ calls[c].searchParams # calls[d].searchParams
    /\ calls[c].result.code = calls[d].result.code

\* C3: decrypting an issued token with another non-empty secret than the one
\* it was signed under fails, and fails as an invalid signature.
WrongSecretRejected ==
  (DecryptedIssued /\ ~NoSecret(page.secret) /\ page.secret # calls[Middleware].secret)
  => page.result.kind = "JWSSignatureVerificationFailed"

\* C4: decrypting, with the secret it was signed under, an issued token with
\* one character of its payload or signature segment replaced fails as an
\* invalid signature or as a malformed token.
TamperRejected ==
  (Issued(Middleware) /\ page.pc = "done" /\ page.code \in Tampered(calls[Middleware].result.code)
     /\ page.secret = calls[Middleware].secret)
  => page.result.kind \in { "JWSSignatureVerificationFailed", "JWSInvalid" }

\* C5: with the secret absent or empty, precomputeSearchParams and decrypt
\* fail for the missing secret, and no key was derived, nothing was given to
\* sign and nothing to verify.
MissingSecretFailsFirst ==
  /\ \A c \in Calls :
       (calls[c].pc # "idle" /\ NoSecret(calls[c].secret))
       => /\ calls[c].pc = "done"
          /\ calls[c].result.kind = "MissingSecret"
          /\ calls[c].key = << >>
          /\ calls[c].jws = NoInput
  /\ (page.pc # "idle" /\ NoSecret(page.secret))
     => /\ page.pc = "done"
        /\ page.result.kind = "MissingSecret"
        /\ page.key = << >>
        /\ page.mac = NoMac
        /\ ~page.verified

\* Both the middleware and the page failed for the missing secret.
MissingSecretWitness ==
  /\ calls[Middleware].pc = "done" /\ NoSecret(calls[Middleware].secret)
  /\ calls[Middleware].result.kind = "MissingSecret"
  /\ page.pc = "done" /\ NoSecret(page.secret)
  /\ page.result.kind = "MissingSecret"

\* C6: decrypting, with a non-empty secret, a string that has not the three
\* segments of a token fails as a malformed token.
MalformedRejected ==
  (page.pc = "done" /\ Len(page.code) # 3 /\ ~NoSecret(page.secret))
  => page.result.kind = "JWSInvalid"

\* C7: two calls given the same search params under the same secret return
\* the same token, also when one starts while the other awaits its signature.
DeterministicTokens ==
  \A c, d \in Calls :
    (Issued(c) /\ Issued(d) /\ calls[c].secret = calls[d].secret
       /\ calls[c].searchParams = calls[d].searchParams)
    => calls[c].result.code = calls[d].result.code

\* Two calls that overlapped returned one token for the same search params.
DeterministicTokensWitness ==
  \E c, d \in Calls :
    /\ c # d /\ Issued(c) /\ Issued(d) /\ calls[d].overlapped
    /\ calls[c].secret = calls[d].secret
    /\ calls[c].searchParams = calls[d].searchParams /\ Len(calls[c].searchParams) > 0
    /\ calls[c].result.code = calls[d].result.code

\* C8: the key serialize signs with and the key decrypt verifies with are
\* both the bytes of the secret's text.
SameKeyBothSides ==
  /\ \A c \in Calls :
       (calls[c].pc # "idle" /\ ~NoSecret(calls[c].secret))
       => calls[c].key = TextEncoderEncode(calls[c].secret.text)
  /\ (page.pc # "idle" /\ ~NoSecret(page.secret))
     => page.key = TextEncoderEncode(page.secret.text)

\* The algorithm the protected header of a three-segment code declares.
DeclaredAlg(code) ==
  LET header == Base64urlDecode(code[1].text)
  IN IF header.ok THEN Get(JSONParse(TextDecoderDecode(header.bytes)).value, << "a", "l", "g" >>)
     ELSE << >>

\* C9: decrypting a three-segment token whose header declares another
\* algorithm than HS256 fails as a malformed token, also when its signature
\* is the right one for that algorithm and the key decrypt derived.
OtherAlgorithmRejected ==
  (/\ page.pc = "done" /\ Len(page.code) = 3
   /\ DeclaredAlg(page.code) \notin { << >>, HS256 }
   /\ page.mac = HMAC(DeclaredAlg(page.code), page.key, page.data))
  => page.result.kind = "JWSInvalid"

\* C10: once the signature of an issued token is verified, decrypt returns
\* exactly the key-value pairs serialize stringified.
DecanonicalizationInverts ==
  (DecryptedIssued /\ page.verified)
  => /\ page.result.kind = "URLSearchParams"
     /\ PairSet(page.result.params)
          = PairSet(ObjectFromEntries(URLSearchParamsSort(calls[Middleware].searchParams)))

====
